---- MODULE Spec2Model ----
(***************************************************************************)
(* Model of ipecmd-wrapper: the command builder, the validators, the       *)
(* passthrough gate and the control flow of the CLI and of program_pic.    *)
(*                                                                         *)
(* A Python str is a sequence of text chunks.  Identifiers, flags, region  *)
(* selectors and passthrough strings are split per character, so slicing,  *)
(* concatenation and character search are computed, not assumed.  Python's *)
(* None is the one-chunk value NONE, which no per-character string equals. *)
(***************************************************************************)
EXTENDS Integers, Sequences, FiniteSets, TLC

VARIABLES
    entry,                \* "build": the builder alone; "cli": cli.main; "api": core.program_pic
    opts,                 \* the options typer hands to main
    env,                  \* platform and the files that exist
    pc,                   \* position in the code
    autodetected_version, \* main's local
    autodetected_path,    \* main's local
    args,                 \* the Args object
    ipecmd_path,          \* program_pic's local
    detected_version,     \* program_pic's local
    passthrough_args,     \* run_cmd_with_passthrough_option's local
    cmd_args,             \* the command built
    raised,               \* the exception in flight, NONE when there is none
    trace,                \* the checks and calls made so far, in order
    spawned,              \* every subprocess.run call: its argv and how it ended
    suggestions,          \* the versions suggested after a failed run
    exit_status           \* the process exit status, NONE while running

vars == <<entry, opts, env, pc, autodetected_version, autodetected_path, args,
          ipecmd_path, detected_version, passthrough_args, cmd_args, raised,
          trace, spawned, suggestions, exit_status>>

\* ------------------------------------------------------------------ bounds
MaxPartLen == 4

MaxPassLen == 2

\* ------------------------------------------------------------ Python values
NONE == <<"None">>

\* bool(x) of a str-or-None value: None and "" are falsy
Truthy(x) == x # NONE /\ x # <<>>

\* s[:n]
Take(s, n) == SubSeq(s, 1, IF Len(s) < n THEN Len(s) ELSE n)

\* s[n:]
Drop(s, n) == SubSeq(s, n + 1, Len(s))

StringsUpTo(A, n) == UNION {[1..k -> A] : k \in 0..n}

\* ------------------------------------------------------------ sample texts
S_ipecmd_exe == <<"i","p","e","c","m","d",".","e","x","e">>
S_test_hex == <<"t","e","s","t",".","h","e","x">>
S_dot_test_hex == <<".", "/">> \o S_test_hex
S_program_hex == <<"p","r","o","g","r","a","m",".","h","e","x">>
S_PIC16F876A == <<"P","I","C","1","6","F","8","7","6","A">>
S_PIC18F4550 == <<"P","I","C","1","8","F","4","5","5","0">>
S_5_0 == <<"5",".","0">>
S_3_3 == <<"3",".","3">>
S_P == <<"P">>

\* --------------------------------------------------------------- constants
PK3 == <<"P","K","3">>
PK4 == <<"P","K","4">>
PK5 == <<"P","K","5">>
ICD3 == <<"I","C","D","3">>
ICD4 == <<"I","C","D","4">>
ICD5 == <<"I","C","D","5">>
ICE4 == <<"I","C","E","4">>
RICE == <<"R","I","C","E">>
SNAP == <<"S","N","A","P">>
PM3 == <<"P","M","3">>
PKOB == <<"P","K","O","B">>
PKOB4 == <<"P","K","O","B","4">>
J32 == <<"J","3","2">>

TOOL_CHOICES == <<PK3, PK4, PK5, ICD3, ICD4, ICD5, ICE4, RICE, SNAP, PM3, PKOB, PKOB4, J32>>

\* mutant: PKOB4 is given the entry of PKOB
TOOL_MAP_SharedEntry ==
    [t \in {PK3, PK4, PK5, ICD3, ICD4, ICD5, ICE4, RICE, SNAP, PM3, PKOB, PKOB4, J32} |->
        <<"T","P">> \o (IF t = PKOB4 THEN PKOB ELSE t)]

TOOL_MAP ==
    (PK3 :> <<"T","P","P","K","3">>) @@
    (PK4 :> <<"T","P","P","K","4">>) @@
    (PK5 :> <<"T","P","P","K","5">>) @@
    (ICD3 :> <<"T","P","I","C","D","3">>) @@
    (ICD4 :> <<"T","P","I","C","D","4">>) @@
    (ICD5 :> <<"T","P","I","C","D","5">>) @@
    (ICE4 :> <<"T","P","I","C","E","4">>) @@
    (RICE :> <<"T","P","R","I","C","E">>) @@
    (SNAP :> <<"T","P","S","N","A","P">>) @@
    (PM3 :> <<"T","P","P","M","3">>) @@
    (PKOB :> <<"T","P","P","K","O","B">>) @@
    (PKOB4 :> <<"T","P","P","K","O","B","4">>) @@
    (J32 :> <<"T","P","J","3","2">>)

\* the prefix build_ipecmd_command compares args.part[:3] with
PIC == <<"P","I","C">>

\* ------------------------------------------------------- build_ipecmd_command
\* TOOL_MAP[args.tool] raises KeyError for a tool that is not a key
\* mutant: the lookup fails for a key of the map as well
BuildRaisesKeyError_AlsoJ32(a) == a.tool \notin DOMAIN TOOL_MAP \/ a.tool = J32

BuildRaisesKeyError(a) == a.tool \notin DOMAIN TOOL_MAP

\* mutant: the identifier itself is embedded, the map is not consulted
ToolFlag_Unmapped(tool) == <<"-","T">> \o tool

ToolFlag(tool) == <<"-">> \o TOOL_MAP[tool]

\* mutant: the prefix is never stripped
PartFlag_Verbatim(part) == <<"-","P">> \o part

PartFlag(part) ==
    IF Take(part, 3) = PIC
    THEN <<"-","P">> \o Drop(part, 3)
    ELSE <<"-","P">> \o part

\* mutant: the file flag is emitted with the text of None when no file is given
FileFlag_Always(a) == << <<"-","F">> \o a.file >>

FileFlag(a) == IF Truthy(a.file) THEN << <<"-","F">> \o a.file >> ELSE <<>>

\* mutant: no bare program flag when no region is given
MemoryFlag_NoBare(a) == IF Truthy(a.memory) THEN << <<"-","M">> \o a.memory >> ELSE <<>>

MemoryFlag(a) == IF Truthy(a.memory) THEN << <<"-","M">> \o a.memory >> ELSE << <<"-","M">> >>

\* mutant: a bare verify flag when no region is given
VerifyFlag_Bare(a) == IF Truthy(a.verify) THEN << <<"-","Y">> \o a.verify >> ELSE << <<"-","Y">> >>

VerifyFlag(a) == IF Truthy(a.verify) THEN << <<"-","Y">> \o a.verify >> ELSE <<>>

PowerFlag(a) == IF Truthy(a.power) THEN << <<"-","W">> \o a.power >> ELSE <<>>

EraseFlag(a) == IF a.erase THEN << <<"-","E">> >> ELSE <<>>

VddFirstFlag(a) == IF a.vdd_first THEN << <<"-","O","D">> >> ELSE <<>>

\* mutant: the logout flag follows the VDD-first input
LogoutFlag_FromVddFirst(a) == IF a.vdd_first THEN << <<"-","O","L">> >> ELSE <<>>

LogoutFlag(a) == IF a.logout THEN << <<"-","O","L">> >> ELSE <<>>

\* mutant: the erase flag is appended before the power flag
build_ipecmd_command_EraseEarly(a, path) ==
    <<path, ToolFlag(a.tool), PartFlag(a.part)>>
        \o FileFlag(a) \o MemoryFlag(a) \o VerifyFlag(a) \o EraseFlag(a)
        \o PowerFlag(a) \o VddFirstFlag(a) \o LogoutFlag(a)

build_ipecmd_command(a, path) ==
    <<path, ToolFlag(a.tool), PartFlag(a.part)>>
        \o FileFlag(a) \o MemoryFlag(a) \o VerifyFlag(a) \o PowerFlag(a)
        \o EraseFlag(a) \o VddFirstFlag(a) \o LogoutFlag(a)

\* ----------------------------------------------------------------- versions
VERSION_CHOICES ==
    << <<"5.50">>, <<"6.00">>, <<"6.05">>, <<"6.10">>, <<"6.15">>, <<"6.20">>, <<"6.25">> >>

\* float(version), in hundredths
VersionFloat(v) ==
    CASE v = <<"5.50">> -> 550
      [] v = <<"6.00">> -> 600
      [] v = <<"6.05">> -> 605
      [] v = <<"6.10">> -> 610
      [] v = <<"6.15">> -> 615
      [] v = <<"6.20">> -> 620
      [] v = <<"6.25">> -> 625

\* sorted(versions, key=float, reverse=True)[0]
LatestOf(versions) == CHOOSE v \in versions : \A w \in versions : VersionFloat(w) <= VersionFloat(v)

IndexOf(seq, x) == CHOOSE i \in DOMAIN seq : seq[i] = x /\ \A j \in 1..(i - 1) : seq[j] # x

InSeq(seq, x) == \E i \in DOMAIN seq : seq[i] = x

\* mutant: the list is not cut to two
_get_version_suggestions_Uncut(current_version) ==
    IF ~InSeq(VERSION_CHOICES, current_version) THEN <<>>
    ELSE LET n == Len(VERSION_CHOICES)
             current_index == IndexOf(VERSION_CHOICES, current_version)
             s1 == IF current_version # VERSION_CHOICES[n] THEN <<VERSION_CHOICES[n]>> ELSE <<>>
             s2 == IF current_index > 1 /\ ~InSeq(s1, VERSION_CHOICES[current_index - 1])
                   THEN Append(s1, VERSION_CHOICES[current_index - 1]) ELSE s1
         IN  IF current_index < n /\ ~InSeq(s2, VERSION_CHOICES[current_index + 1])
             THEN Append(s2, VERSION_CHOICES[current_index + 1]) ELSE s2

_get_version_suggestions(current_version) ==
    IF ~InSeq(VERSION_CHOICES, current_version) THEN <<>>
    ELSE LET n == Len(VERSION_CHOICES)
             current_index == IndexOf(VERSION_CHOICES, current_version)
             s1 == IF current_version # VERSION_CHOICES[n] THEN <<VERSION_CHOICES[n]>> ELSE <<>>
             s2 == IF current_index > 1 /\ ~InSeq(s1, VERSION_CHOICES[current_index - 1])
                   THEN Append(s1, VERSION_CHOICES[current_index - 1]) ELSE s1
             s3 == IF current_index < n /\ ~InSeq(s2, VERSION_CHOICES[current_index + 1])
                   THEN Append(s2, VERSION_CHOICES[current_index + 1]) ELSE s2
         IN  Take(s3, 2)

\* -------------------------------------------------------------- file system
\* A path is its text in chunks: directory names, separators, file name.
WinBase == <<"C:", "/", "Program Files", "/", "Microchip", "/", "MPLABX">>
WinBaseX86 == <<"C:", "/", "Program Files (x86)", "/", "Microchip", "/", "MPLABX">>
MacBase == <<"/", "Applications", "/", "microchip", "/", "mplabx">>
UnixBase == <<"/", "opt", "/", "microchip", "/", "mplabx">>

\* base / f"v{version}" / "mplab_platform" / "mplab_ipe" / exe
IpePath(base, version, exe) ==
    base \o <<"/", "v">> \o version \o <<"/", "mplab_platform", "/", "mplab_ipe", "/", exe>>

\* Path.as_posix(): forward slashes whatever the platform
AsPosix(p) == [i \in DOMAIN p |-> IF p[i] = "\\" THEN "/" ELSE p[i]]

\* str(Path): the platform's own separator
NativeStr(p, platform) ==
    IF platform = "win32" THEN [i \in DOMAIN p |-> IF p[i] = "/" THEN "\\" ELSE p[i]] ELSE p

\* mutant: the Windows file name on every platform
get_ipecmd_path_for_ExeEverywhere(platform, target_version) ==
    IF platform = "win32" THEN AsPosix(IpePath(WinBase, target_version, "ipecmd.exe"))
    ELSE IF platform = "darwin" THEN AsPosix(IpePath(MacBase, target_version, "ipecmd.exe"))
    ELSE AsPosix(IpePath(UnixBase, target_version, "ipecmd.exe"))

get_ipecmd_path_for(platform, target_version) ==
    IF platform = "win32" THEN AsPosix(IpePath(WinBase, target_version, "ipecmd.exe"))
    ELSE IF platform = "darwin" THEN AsPosix(IpePath(MacBase, target_version, "ipecmd"))
    ELSE AsPosix(IpePath(UnixBase, target_version, "ipecmd"))

\* the executable a caller may name with --ipecmd-path, and the firmware image
CustomPath == <<"/", "custom", "/", "ipecmd">>

\* Path(p).exists() in environment e
Exists(e, p) ==
    \/ p = CustomPath /\ e.custom_exists
    \/ p \in {S_test_hex, S_dot_test_hex} /\ e.hex_exists
    \/ \E v \in e.installed : AsPosix(p) = get_ipecmd_path_for(e.platform, v)

\* the versions detect_latest_ipecmd_version finds: both base directories on win32
ScannedVersions(e) == e.installed \cup (IF e.platform = "win32" THEN e.installed_x86 ELSE {})

detect_latest_ipecmd_version(e) ==
    IF ScannedVersions(e) = {} THEN NONE ELSE LatestOf(ScannedVersions(e))

\* cli.autodetect_ipecmd: <<version, path>>, scanning the first base directory only
autodetect_ipecmd(e) ==
    IF e.installed = {} THEN <<NONE, NONE>>
    ELSE LET v == LatestOf(e.installed)
             base == IF e.platform = "win32" THEN WinBase
                     ELSE IF e.platform = "darwin" THEN MacBase ELSE UnixBase
             exe == IF e.platform = "win32" THEN "ipecmd.exe" ELSE "ipecmd"
         IN  <<v, NativeStr(IpePath(base, v, exe), e.platform)>>

validate_ipecmd(e, path) == Exists(e, path)

\* mutant: the firmware image is taken to exist without looking
validate_hex_file_Unchecked(e, hex_file_path) == TRUE

\* mutant: only the name is looked at, the file system is not consulted
validate_hex_file_ByName(e, hex_file_path) == hex_file_path \in {S_test_hex, S_dot_test_hex}

validate_hex_file(e, hex_file_path) == Exists(e, hex_file_path)

\* ---------------------------------------------------------- passthrough gate
\* the grave accent, which a TLA+ string literal cannot hold, as a named chunk
BACKTICK == "backtick"

\* the character class of re.search(r"[;&|`$><]", passthrough)
UnsafeChars == {";", "&", "|", BACKTICK, "$", ">", "<"}

\* mutant: the character class misses the dollar sign
is_safe_passthrough_NoDollar(passthrough) ==
    \A i \in DOMAIN passthrough : passthrough[i] \notin (UnsafeChars \ {"$"})

is_safe_passthrough(passthrough) == \A i \in DOMAIN passthrough : passthrough[i] \notin UnsafeChars

\* shlex.split(s): POSIX rules; whitespace separates, quotes group, a backslash escapes.
\* [ok |-> FALSE] stands for the ValueError of an unclosed quote or a dangling escape.
Whitespace == {" ", "\t", "\r", "\n"}

RECURSIVE ShlexScan(_, _, _, _, _)
ShlexScan(s, i, state, tok, out) ==
    IF i > Len(s)
    THEN IF state = "ws" THEN [ok |-> TRUE, tokens |-> out]
         ELSE IF state = "word" THEN [ok |-> TRUE, tokens |-> Append(out, tok)]
         ELSE [ok |-> FALSE, tokens |-> <<>>]
    ELSE LET c == s[i]
         IN  CASE state = "ws" ->
                    IF c \in Whitespace THEN ShlexScan(s, i + 1, "ws", <<>>, out)
                    ELSE IF c = "'" THEN ShlexScan(s, i + 1, "sq", <<>>, out)
                    ELSE IF c = "\"" THEN ShlexScan(s, i + 1, "dq", <<>>, out)
                    ELSE IF c = "\\" THEN ShlexScan(s, i + 1, "esc", <<>>, out)
                    ELSE ShlexScan(s, i + 1, "word", <<c>>, out)
               [] state = "word" ->
                    IF c \in Whitespace THEN ShlexScan(s, i + 1, "ws", <<>>, Append(out, tok))
                    ELSE IF c = "'" THEN ShlexScan(s, i + 1, "sq", tok, out)
                    ELSE IF c = "\"" THEN ShlexScan(s, i + 1, "dq", tok, out)
                    ELSE IF c = "\\" THEN ShlexScan(s, i + 1, "esc", tok, out)
                    ELSE ShlexScan(s, i + 1, "word", Append(tok, c), out)
               [] state = "sq" ->
                    IF c = "'" THEN ShlexScan(s, i + 1, "word", tok, out)
                    ELSE ShlexScan(s, i + 1, "sq", Append(tok, c), out)
               [] state = "dq" ->
                    IF c = "\"" THEN ShlexScan(s, i + 1, "word", tok, out)
                    ELSE IF c = "\\" THEN ShlexScan(s, i + 1, "dqesc", tok, out)
                    ELSE ShlexScan(s, i + 1, "dq", Append(tok, c), out)
               [] state = "dqesc" ->
                    IF c \in {"\"", "\\"} THEN ShlexScan(s, i + 1, "dq", Append(tok, c), out)
                    ELSE ShlexScan(s, i + 1, "dq", Append(Append(tok, "\\"), c), out)
               [] state = "esc" ->
                    ShlexScan(s, i + 1, "word", Append(tok, c), out)

shlex_split(s) == ShlexScan(s, 1, "ws", <<>>, <<>>)

\* get_ipecmd_path(version, custom_path) in environment e
ValueErrorPath == <<"ValueError">>

\* mutant: no scan; neither argument given is an error
get_ipecmd_path_NoAutodetect(e, version, custom_path) ==
    IF Truthy(custom_path) THEN custom_path
    ELSE IF Truthy(version) THEN get_ipecmd_path_for(e.platform, version)
    ELSE ValueErrorPath

\* mutant: the version is resolved even when a custom path is given
get_ipecmd_path_VersionWins(e, version, custom_path) ==
    IF Truthy(version) THEN get_ipecmd_path_for(e.platform, version)
    ELSE IF Truthy(custom_path) THEN custom_path
    ELSE IF Truthy(detect_latest_ipecmd_version(e))
         THEN get_ipecmd_path_for(e.platform, detect_latest_ipecmd_version(e))
         ELSE ValueErrorPath

get_ipecmd_path(e, version, custom_path) ==
    IF Truthy(custom_path) THEN custom_path
    ELSE IF Truthy(version) THEN get_ipecmd_path_for(e.platform, version)
    ELSE IF Truthy(detect_latest_ipecmd_version(e))
         THEN get_ipecmd_path_for(e.platform, detect_latest_ipecmd_version(e))
         ELSE ValueErrorPath

\* ------------------------------------------------------- the CLI's conversions
\* class ToolChoice(str, Enum): member -> value
ToolChoice ==
    (PK3 :> PK3) @@ (PK4 :> PK4) @@ (PK5 :> PK5) @@ (ICD3 :> ICD3) @@ (ICD4 :> ICD4) @@
    (ICD5 :> ICD5) @@ (ICE4 :> ICE4) @@ (RICE :> RICE) @@ (SNAP :> SNAP) @@ (PM3 :> PM3) @@
    (PKOB :> PKOB) @@ (PKOB4 :> PKOB4) @@ (J32 :> J32)

\* class VersionChoice(str, Enum): member -> value
VersionChoice ==
    (<<"V5_50">> :> <<"5.50">>) @@ (<<"V6_00">> :> <<"6.00">>) @@ (<<"V6_05">> :> <<"6.05">>) @@
    (<<"V6_10">> :> <<"6.10">>) @@ (<<"V6_15">> :> <<"6.15">>) @@ (<<"V6_20">> :> <<"6.20">>) @@
    (<<"V6_25">> :> <<"6.25">>)

\* str(float(text)) for a typed voltage of digits with at most one point:
\* "5" -> "5.0", "3.30" -> "3.3", "5.0" -> "5.0"
RECURSIVE StripZeros(_)
StripZeros(t) ==
    IF Len(t) > 0 /\ t[Len(t)] = "0" THEN StripZeros(SubSeq(t, 1, Len(t) - 1)) ELSE t

\* mutant: the typed voltage is passed on as it is
FloatStr_Typed(text) == text

FloatStr(text) ==
    IF ~InSeq(text, ".") THEN text \o <<".", "0">>
    ELSE LET dot == IndexOf(text, ".")
             frac == StripZeros(Drop(text, dot))
         IN  Take(text, dot) \o (IF frac = <<>> THEN <<"0">> ELSE frac)

\* str(file) of the Path typer made of the typed text: pathlib drops a leading
\* "./" ("./test.hex" -> "test.hex")
PathStr(file) ==
    IF Len(file) > 2 /\ file[1] = "." /\ file[2] = "/" THEN Drop(file, 2) ELSE file

\* Args(...) of cli.main
MakeArgs(o, auto_version, auto_path) ==
    [part |-> o.part,
     tool |-> IF o.tool # NONE THEN ToolChoice[o.tool] ELSE NONE,
     file |-> IF o.file # NONE THEN PathStr(o.file) ELSE NONE,
     power |-> IF o.power # NONE THEN FloatStr(o.power) ELSE NONE,
     memory |-> o.memory,
     verify |-> o.verify,
     erase |-> o.erase,
     logout |-> o.logout,
     vdd_first |-> o.vdd_first,
     test_programmer |-> o.test_programmer,
     ipecmd_version |-> IF o.ipecmd_version # NONE THEN VersionChoice[o.ipecmd_version] ELSE auto_version,
     ipecmd_path |-> IF Truthy(o.ipecmd_path) THEN o.ipecmd_path ELSE auto_path,
     passthrough |-> o.passthrough]

\* no suggestion loop was run / the versions the loop of execute_programming logged
NoSuggestions == [emitted |-> FALSE, versions |-> <<>>]

\* ------------------------------------------------ the builder called on its own
\* (as the unit tests call it: an args object and an executable path)
PartChars == {"P", "I", "C"}

\* a tool identifier that is no key of TOOL_MAP
BadTool == <<"X","X">>

BuildTools == {TOOL_CHOICES[i] : i \in DOMAIN TOOL_CHOICES} \cup {BadTool}

BuildParts == StringsUpTo(PartChars, MaxPartLen)

GeneratedRequests ==
    [tool : BuildTools, part : BuildParts, file : {NONE, S_test_hex},
     memory : {<<>>, S_P}, verify : {<<>>, S_P}, power : {NONE, S_5_0},
     erase : BOOLEAN, vdd_first : BOOLEAN, logout : BOOLEAN]

\* test_build_ipecmd_command_basic
ScenarioBasic ==
    [tool |-> PK3, part |-> S_PIC16F876A, file |-> S_test_hex, memory |-> <<>>,
     verify |-> <<>>, power |-> S_5_0, erase |-> FALSE, vdd_first |-> FALSE,
     logout |-> FALSE]

\* test_build_ipecmd_command_with_options
ScenarioWithOptions ==
    [tool |-> PK4, part |-> S_PIC18F4550, file |-> S_program_hex, memory |-> S_P,
     verify |-> S_P, power |-> S_3_3, erase |-> TRUE, vdd_first |-> TRUE,
     logout |-> TRUE]

BuildRequests == GeneratedRequests \cup {ScenarioBasic, ScenarioWithOptions}

InitBuild ==
    /\ entry = "build"
    /\ pc = "call_build"
    /\ args \in BuildRequests
    /\ ipecmd_path = S_ipecmd_exe
    /\ cmd_args = <<>>
    /\ raised = NONE
    /\ opts = NONE
    /\ env = NONE
    /\ autodetected_version = NONE
    /\ autodetected_path = NONE
    /\ detected_version = NONE
    /\ passthrough_args = <<>>
    /\ trace = <<>>
    /\ spawned = <<>>
    /\ suggestions = NoSuggestions
    /\ exit_status = <<>>

\* cmd_args = build_ipecmd_command(args, ipecmd_path)
CallBuild ==
    /\ pc = "call_build"
    /\ IF BuildRaisesKeyError(args)
       THEN /\ raised' = <<"KeyError">>
            /\ cmd_args' = cmd_args
       ELSE /\ cmd_args' = build_ipecmd_command(args, ipecmd_path)
            /\ raised' = raised
    /\ pc' = "built"
    /\ UNCHANGED <<entry, opts, env, autodetected_version, autodetected_path, args,
                   ipecmd_path, detected_version, passthrough_args, trace, spawned,
                   suggestions, exit_status>>

NextBuild == CallBuild

SpecBuild == InitBuild /\ [][NextBuild]_vars

\* ------------------------------------------------------------ an invocation
\* Inputs.  The options typer can hand to main, in two families: programming
\* requests over every control-flow option, and passthrough requests over every
\* passthrough string of at most MaxPassLen characters.
PassChars == {"-", "K", " ", "'"} \cup UnsafeChars

PassStrings == StringsUpTo(PassChars, MaxPassLen)

Platforms == {"win32", "darwin", "linux"}

\* the versions that may be installed under the platform's base directory
Installable == {<<"6.20">>, <<"6.25">>}

\* the versions that may be installed under "Program Files (x86)"
InstallableX86 == {<<"6.25">>}

S_3_30 == <<"3",".","3","0">>

\* power, memory, verify, erase, vdd_first, logout
Profiles ==
    { [power |-> NONE, memory |-> <<>>, verify |-> <<>>, erase |-> FALSE,
       vdd_first |-> FALSE, logout |-> FALSE],
      [power |-> S_5_0, memory |-> S_P, verify |-> S_P, erase |-> TRUE,
       vdd_first |-> FALSE, logout |-> FALSE],
      [power |-> S_3_30, memory |-> S_P, verify |-> S_P, erase |-> TRUE,
       vdd_first |-> TRUE, logout |-> TRUE] }

Options(part, tool, file, prof, test, version, path, help, pass) ==
    [part |-> part, tool |-> tool, file |-> file, power |-> prof.power,
     memory |-> prof.memory, verify |-> prof.verify, erase |-> prof.erase,
     logout |-> prof.logout, vdd_first |-> prof.vdd_first, test_programmer |-> test,
     ipecmd_version |-> version, ipecmd_path |-> path, ipecmd_help |-> help,
     passthrough |-> pass]

\* part and tool are positional: a tool is never given without a part
Positionals == { <<NONE, NONE>>, <<S_PIC16F876A, NONE>>, <<S_PIC16F876A, PK3>> }

ProgrammingOptions ==
    { Options(pos[1], pos[2], file, prof, test, version, path, help, NONE) :
        pos \in Positionals, file \in {NONE, S_test_hex, S_dot_test_hex}, prof \in Profiles,
        test \in BOOLEAN, version \in {NONE, <<"V6_20">>, <<"V6_00">>},
        path \in {NONE, CustomPath}, help \in BOOLEAN }

\* every option around the strings of at most one character, and every string
\* with the executable named by --ipecmd-path
PassthroughOptions ==
    { Options(pos[1], pos[2], NONE, prof, FALSE, version, path, help, pass) :
        pos \in {<<NONE, NONE>>, <<S_PIC16F876A, PK3>>},
        prof \in {p \in Profiles : p.vdd_first}, version \in {NONE, <<"V6_20">>},
        path \in {NONE, CustomPath}, help \in BOOLEAN,
        pass \in {str \in PassStrings : Len(str) <= 1} }
    \cup
    { Options(NONE, NONE, NONE, prof, FALSE, NONE, CustomPath, FALSE, pass) :
        prof \in {p \in Profiles : p.vdd_first}, pass \in PassStrings }

\* program_pic called by a program of its own (as the unit tests call it)
ApiRequests ==
    { [part |-> S_PIC16F876A, tool |-> tool, file |-> file, power |-> prof.power,
       memory |-> prof.memory, verify |-> prof.verify, erase |-> prof.erase,
       logout |-> prof.logout, vdd_first |-> prof.vdd_first, test_programmer |-> test,
       ipecmd_version |-> version, ipecmd_path |-> path, passthrough |-> NONE] :
        tool \in {PK3, BadTool}, file \in {NONE, S_test_hex}, prof \in Profiles,
        test \in BOOLEAN, version \in {NONE, <<"6.20">>, <<"6.00">>},
        path \in {NONE, CustomPath} }

\* the environments that differ for a request: a file that is not named is not there
Environments(file, path) ==
    { e \in [platform : Platforms, installed : SUBSET Installable,
             installed_x86 : SUBSET InstallableX86, custom_exists : BOOLEAN,
             hex_exists : BOOLEAN] :
        /\ e.platform # "win32" => e.installed_x86 = {}
        /\ file = NONE => ~e.hex_exists
        /\ path = NONE => ~e.custom_exists }

InitLocals ==
    /\ autodetected_version = NONE
    /\ autodetected_path = NONE
    /\ ipecmd_path = NONE
    /\ detected_version = NONE
    /\ passthrough_args = <<>>
    /\ cmd_args = <<>>
    /\ raised = NONE
    /\ trace = <<>>
    /\ spawned = <<>>
    /\ suggestions = NoSuggestions
    /\ exit_status = <<>>

InitCli ==
    /\ entry = "cli"
    /\ opts \in ProgrammingOptions \cup PassthroughOptions
    /\ env \in Environments(opts.file, opts.ipecmd_path)
    /\ args = NONE
    /\ pc = "typer_parse"
    /\ InitLocals

InitApi ==
    /\ entry = "api"
    /\ opts = NONE
    /\ args \in ApiRequests
    /\ env \in Environments(args.file, args.ipecmd_path)
    /\ pc = "pp_resolve"
    /\ InitLocals

\* get_ipecmd_path called on its own (as the unit tests call it)
\* a version string that is no member of VERSION_CHOICES
S_9_99 == <<"9.99">>

PathVersions ==
    {NONE, <<>>, S_9_99} \cup {VERSION_CHOICES[i] : i \in DOMAIN VERSION_CHOICES}

\* a custom path written with backslashes
CustomPathWin == <<"C:", "\\", "tools", "\\", "ipecmd.exe">>

PathCustoms == {NONE, <<>>, CustomPath, CustomPathWin}

InitPath ==
    /\ entry = "path"
    /\ opts = NONE
    /\ args \in [version : PathVersions, custom_path : PathCustoms]
    /\ env \in Environments(NONE, NONE)
    /\ pc = "call_get_path"
    /\ InitLocals

\* _get_version_suggestions called on its own (as the unit tests call it)
InitSuggest ==
    /\ entry = "suggest"
    /\ opts = NONE
    /\ args \in [current_version : PathVersions]
    /\ env = NONE
    /\ pc = "call_suggest"
    /\ InitLocals

Init == InitCli \/ InitApi \/ InitPath \/ InitSuggest

\* --- steps shared by the actions
Event(ev, what) == [ev |-> ev, what |-> what]

\* how subprocess.run([path, ...]) can end: it raises when there is nothing to
\* run; an existing file runs and exits, or cannot be started
SpawnOutcomes(e, path) ==
    IF path = NONE \/ ~Exists(e, path) THEN {"raised"} ELSE {"raised", "rc0", "rc1"}

\* subprocess.run(argv, capture_output=True, text=True): the list is handed to
\* the operating system as it is; shell is left at its default, False
\* mutant: the command goes through a shell
Spawn_ThroughShell(kind, argv, result) ==
    [kind |-> kind, argv |-> argv, shell |-> TRUE, result |-> result]

Spawn(kind, argv, result) ==
    [kind |-> kind, argv |-> argv, shell |-> FALSE, result |-> result]

\* the exit status typer.Exit(code) and sys.exit(code) end the process with
\* mutant: the status is set and the process stays where it is
ExitWith_Stays(code) ==
    /\ pc' = pc
    /\ exit_status' = <<code>>

ExitWith(code) ==
    /\ pc' = "done"
    /\ exit_status' = <<code>>

\* --- cli.main
\* the status main ends with after a call into the core that left exc behind:
\* both except clauses raise typer.Exit(1), SystemExit(1) passes them and ends
\* the process with 1, and without an exception main goes on to its exit 0
\* mutant: an exception is logged and main goes on
MainExitCode_Swallowed(exc) == IF exc = <<"SystemExit">> THEN 1 ELSE 0

MainExitCode(exc) == IF exc # NONE THEN 1 ELSE 0

\* typer.Option("--file", exists=True): a path that does not exist is refused
\* before main runs, as a usage error
TyperParse ==
    /\ pc = "typer_parse"
    /\ IF opts.file # NONE /\ ~Exists(env, opts.file)
       THEN ExitWith(2)
       ELSE pc' = "main_autodetect" /\ exit_status' = exit_status
    /\ UNCHANGED <<entry, opts, env, autodetected_version, autodetected_path, args,
                   ipecmd_path, detected_version, passthrough_args, cmd_args, raised,
                   trace, spawned, suggestions>>

MainAutodetect ==
    /\ pc = "main_autodetect"
    /\ IF ~Truthy(opts.ipecmd_version) /\ ~Truthy(opts.ipecmd_path)
       THEN LET found == autodetect_ipecmd(env)
            IN  /\ autodetected_version' = found[1]
                /\ autodetected_path' = found[2]
                /\ IF ~Truthy(found[1])
                   THEN ExitWith(1) /\ trace' = trace
                   ELSE /\ pc' = "main_help"
                        /\ exit_status' = exit_status
                        /\ trace' = Append(trace, Event("autodetect_found", found[2]))
       ELSE /\ pc' = "main_help"
            /\ UNCHANGED <<autodetected_version, autodetected_path, exit_status, trace>>
    /\ UNCHANGED <<entry, opts, env, args, ipecmd_path, detected_version,
                   passthrough_args, cmd_args, raised, spawned, suggestions>>

\* the executable --ipecmd-help runs
HelpPath(o, e) ==
    IF Truthy(o.ipecmd_path) THEN o.ipecmd_path
    ELSE IF ~Truthy(o.ipecmd_version) THEN autodetect_ipecmd(e)[2]
    ELSE NONE

MainHelp ==
    /\ pc = "main_help"
    /\ IF opts.ipecmd_help
       THEN LET again == IF ~Truthy(opts.ipecmd_version) /\ ~Truthy(opts.ipecmd_path)
                         THEN autodetect_ipecmd(env) ELSE <<NONE, NONE>>
                ipecmd_path_final == HelpPath(opts, env)
            IN  /\ autodetected_version' = again[1]
                /\ autodetected_path' = again[2]
                /\ IF ~Truthy(ipecmd_path_final)
                   THEN ExitWith(1) /\ spawned' = spawned
                   ELSE \E result \in SpawnOutcomes(env, ipecmd_path_final) :
                          /\ spawned' = Append(spawned,
                                Spawn("help", <<ipecmd_path_final, <<"-", "?">> >>, result))
                          /\ IF result = "raised" THEN ExitWith(1) ELSE ExitWith(0)
       ELSE /\ pc' = "main_args"
            /\ UNCHANGED <<autodetected_version, autodetected_path, spawned, exit_status>>
    /\ UNCHANGED <<entry, opts, env, args, ipecmd_path, detected_version,
                   passthrough_args, cmd_args, raised, trace, suggestions>>

MainArgs ==
    /\ pc = "main_args"
    /\ args' = MakeArgs(opts, autodetected_version, autodetected_path)
    /\ pc' = IF Truthy(opts.passthrough) THEN "run_cmd_gate" ELSE "main_required"
    /\ UNCHANGED <<entry, opts, env, autodetected_version, autodetected_path,
                   ipecmd_path, detected_version, passthrough_args, cmd_args, raised,
                   trace, spawned, suggestions, exit_status>>

\* --- core.run_cmd_with_passthrough_option
RunCmdGate ==
    /\ pc = "run_cmd_gate"
    /\ cmd_args' = <<args.ipecmd_path>>
    /\ IF ~is_safe_passthrough(args.passthrough)
       THEN /\ raised' = <<"ValueError">>
            /\ trace' = Append(trace, Event("gate_rejected", args.passthrough))
            /\ pc' = "main_passthrough_end"
       ELSE /\ raised' = raised
            /\ trace' = Append(trace, Event("gate_passed", args.passthrough))
            /\ pc' = "run_cmd_split"
    /\ UNCHANGED <<entry, opts, env, autodetected_version, autodetected_path, args,
                   ipecmd_path, detected_version, passthrough_args, spawned,
                   suggestions, exit_status>>

RunCmdSplit ==
    /\ pc = "run_cmd_split"
    /\ LET split == shlex_split(args.passthrough)
       IN  /\ trace' = Append(trace, Event("tokenized", args.passthrough))
           /\ IF ~split.ok
              THEN /\ raised' = <<"ValueError">>
                   /\ pc' = "main_passthrough_end"
                   /\ UNCHANGED <<passthrough_args, cmd_args>>
              ELSE /\ passthrough_args' = split.tokens
                   /\ cmd_args' = cmd_args \o split.tokens
                   /\ raised' = raised
                   /\ pc' = "run_cmd_spawn"
    /\ UNCHANGED <<entry, opts, env, autodetected_version, autodetected_path, args,
                   ipecmd_path, detected_version, spawned, suggestions, exit_status>>

RunCmdSpawn ==
    /\ pc = "run_cmd_spawn"
    /\ \E result \in SpawnOutcomes(env, cmd_args[1]) :
          spawned' = Append(spawned, Spawn("passthrough", cmd_args, result))
    /\ pc' = "main_passthrough_end"
    /\ UNCHANGED <<entry, opts, env, autodetected_version, autodetected_path, args,
                   ipecmd_path, detected_version, passthrough_args, cmd_args, raised,
                   trace, suggestions, exit_status>>

\* the try/except around run_cmd_with_passthrough_option, then typer.Exit()
MainPassthroughEnd ==
    /\ pc = "main_passthrough_end"
    /\ ExitWith(MainExitCode(raised))
    /\ UNCHANGED <<entry, opts, env, autodetected_version, autodetected_path, args,
                   ipecmd_path, detected_version, passthrough_args, cmd_args, raised,
                   trace, spawned, suggestions>>

\* if part is None or tool is None
\* mutant: only the part is looked at
MissingRequired_PartOnly(o) == o.part = NONE

MissingRequired(o) == o.part = NONE \/ o.tool = NONE

MainRequired ==
    /\ pc = "main_required"
    /\ IF MissingRequired(opts)
       THEN ExitWith(1)
       ELSE pc' = "pp_resolve" /\ exit_status' = exit_status
    /\ UNCHANGED <<entry, opts, env, autodetected_version, autodetected_path, args,
                   ipecmd_path, detected_version, passthrough_args, cmd_args, raised,
                   trace, spawned, suggestions>>

\* --- core.program_pic
\* sys.exit(1): SystemExit leaves program_pic
SysExit ==
    /\ raised' = <<"SystemExit">>
    /\ pc' = "pp_end"

ProgramPicResolve ==
    /\ pc = "pp_resolve"
    /\ IF Truthy(args.ipecmd_path)
       THEN /\ ipecmd_path' = args.ipecmd_path
            /\ pc' = "pp_validate_hex"
            /\ UNCHANGED <<detected_version, raised>>
       ELSE IF Truthy(args.ipecmd_version)
       THEN /\ ipecmd_path' = get_ipecmd_path(env, args.ipecmd_version, NONE)
            /\ pc' = "pp_validate_hex"
            /\ UNCHANGED <<detected_version, raised>>
       ELSE /\ detected_version' = detect_latest_ipecmd_version(env)
            /\ IF Truthy(detected_version')
               THEN /\ ipecmd_path' = get_ipecmd_path(env, detected_version', NONE)
                    /\ pc' = "pp_validate_hex"
                    /\ raised' = raised
               ELSE /\ ipecmd_path' = ipecmd_path
                    /\ SysExit
    /\ trace' = Append(trace, Event("program_pic", args))
    /\ UNCHANGED <<entry, opts, env, autodetected_version, autodetected_path, args,
                   passthrough_args, cmd_args, spawned, suggestions, exit_status>>

ProgramPicValidateHex ==
    /\ pc = "pp_validate_hex"
    /\ IF Truthy(args.file)
       THEN IF validate_hex_file(env, args.file)
            THEN /\ trace' = Append(trace, Event("hex_found", args.file))
                 /\ pc' = "pp_validate_ipecmd"
                 /\ raised' = raised
            ELSE /\ trace' = Append(trace, Event("hex_missing", args.file))
                 /\ SysExit
       ELSE /\ pc' = "pp_validate_ipecmd"
            /\ UNCHANGED <<trace, raised>>
    /\ UNCHANGED <<entry, opts, env, autodetected_version, autodetected_path, args,
                   ipecmd_path, detected_version, passthrough_args, cmd_args, spawned,
                   suggestions, exit_status>>

ProgramPicValidateIpecmd ==
    /\ pc = "pp_validate_ipecmd"
    /\ IF validate_ipecmd(env, ipecmd_path)
       THEN /\ trace' = Append(trace, Event("ipecmd_found", ipecmd_path))
            /\ pc' = "pp_detect"
            /\ raised' = raised
       ELSE /\ trace' = Append(trace, Event("ipecmd_missing", ipecmd_path))
            /\ SysExit
    /\ UNCHANGED <<entry, opts, env, autodetected_version, autodetected_path, args,
                   ipecmd_path, detected_version, passthrough_args, cmd_args, spawned,
                   suggestions, exit_status>>

\* what detect_programmer returns for the way its subprocess.run ended: False
\* for a non-zero return code and for any exception, True otherwise
\* mutant: a child that could not be started counts as a detected programmer
detect_programmer_RaiseIsDetected(result) == result # "rc1"

\* mutant: every child that ran counts as a detected programmer
detect_programmer_AnyExit(result) == result # "raised"

detect_programmer(result) == result = "rc0"

\* what execute_programming returns for the way its subprocess.run ended
\* mutant: an exception while spawning counts as success
execute_programming_RaiseIsSuccess(result) == result # "rc1"

execute_programming(result) == result = "rc0"

\* test_cmd of detect_programmer
ProbeCommand(path, part, tool) ==
    <<path, <<"-">> \o TOOL_MAP[tool], <<"-","P">> \o part, <<"-","O","K">> >>

ProgramPicDetect ==
    /\ pc = "pp_detect"
    /\ IF args.test_programmer
       THEN IF args.tool \notin DOMAIN TOOL_MAP
            THEN /\ raised' = <<"KeyError">>
                 /\ pc' = "pp_end"
                 /\ UNCHANGED <<spawned, trace>>
            ELSE \E result \in SpawnOutcomes(env, ipecmd_path) :
                   /\ spawned' = Append(spawned,
                         Spawn("probe", ProbeCommand(ipecmd_path, args.part, args.tool), result))
                   /\ trace' = Append(trace,
                         Event("detect_programmer", detect_programmer(result)))
                   /\ IF detect_programmer(result)
                      THEN pc' = "pp_build" /\ raised' = raised
                      ELSE SysExit
       ELSE /\ pc' = "pp_build"
            /\ UNCHANGED <<raised, spawned, trace>>
    /\ UNCHANGED <<entry, opts, env, autodetected_version, autodetected_path, args,
                   ipecmd_path, detected_version, passthrough_args, cmd_args,
                   suggestions, exit_status>>

ProgramPicBuild ==
    /\ pc = "pp_build"
    /\ IF BuildRaisesKeyError(args)
       THEN /\ raised' = <<"KeyError">>
            /\ pc' = "pp_end"
            /\ UNCHANGED <<cmd_args, trace>>
       ELSE /\ cmd_args' = build_ipecmd_command(args, ipecmd_path)
            /\ trace' = Append(trace, Event("built", ipecmd_path))
            /\ pc' = "pp_execute"
            /\ raised' = raised
    /\ UNCHANGED <<entry, opts, env, autodetected_version, autodetected_path, args,
                   ipecmd_path, detected_version, passthrough_args, spawned,
                   suggestions, exit_status>>

\* detected_version or args.ipecmd_version
VersionForErrors == IF Truthy(detected_version) THEN detected_version ELSE args.ipecmd_version

ProgramPicExecute ==
    /\ pc = "pp_execute"
    /\ \E result \in SpawnOutcomes(env, cmd_args[1]) :
          /\ spawned' = Append(spawned, Spawn("program", cmd_args, result))
          /\ suggestions' =
                IF result = "rc1" /\ Truthy(VersionForErrors)
                THEN [emitted |-> TRUE, versions |-> _get_version_suggestions(VersionForErrors)]
                ELSE suggestions
          /\ trace' = Append(trace,
                Event("execute_programming", execute_programming(result)))
          /\ IF execute_programming(result)
             THEN pc' = "pp_end" /\ raised' = raised
             ELSE SysExit
    /\ UNCHANGED <<entry, opts, env, autodetected_version, autodetected_path, args,
                   ipecmd_path, detected_version, passthrough_args, cmd_args,
                   exit_status>>

\* the try/except around program_pic in main: every exception is turned into
\* typer.Exit(1), SystemExit(1) ends the process with 1, a return ends main
MainProgramEnd ==
    /\ pc = "pp_end"
    /\ entry = "cli"
    /\ ExitWith(MainExitCode(raised))
    /\ UNCHANGED <<entry, opts, env, autodetected_version, autodetected_path, args,
                   ipecmd_path, detected_version, passthrough_args, cmd_args, raised,
                   trace, spawned, suggestions>>

\* the calling program ends with program_pic: 0 after a return, 1 after
\* sys.exit(1) or an exception nobody catches
ApiCallerEnd ==
    /\ pc = "pp_end"
    /\ entry = "api"
    /\ IF raised # NONE THEN ExitWith(1) ELSE ExitWith(0)
    /\ UNCHANGED <<entry, opts, env, autodetected_version, autodetected_path, args,
                   ipecmd_path, detected_version, passthrough_args, cmd_args, raised,
                   trace, spawned, suggestions>>

\* --- core.get_ipecmd_path called on its own
\* the text of the ValueError raised when the scan finds no installation
NoInstallationFound ==
    <<"No MPLAB X IDE installation found. Please install MPLAB X IDE or specify custom path with --ipecmd-path">>

\* ipecmd_path = get_ipecmd_path(version, custom_path)
CallGetPath ==
    /\ pc = "call_get_path"
    /\ LET path == get_ipecmd_path(env, args.version, args.custom_path)
       IN  IF path = ValueErrorPath
           THEN /\ raised' = ValueErrorPath \o NoInstallationFound
                /\ ipecmd_path' = ipecmd_path
           ELSE /\ ipecmd_path' = path
                /\ raised' = raised
    /\ pc' = "got_path"
    /\ UNCHANGED <<entry, opts, env, autodetected_version, autodetected_path, args,
                   detected_version, passthrough_args, cmd_args, trace, spawned,
                   suggestions, exit_status>>

\* --- core._get_version_suggestions called on its own
\* suggestions = _get_version_suggestions(current_version)
CallSuggest ==
    /\ pc = "call_suggest"
    /\ suggestions' = [emitted |-> TRUE,
                       versions |-> _get_version_suggestions(args.current_version)]
    /\ pc' = "got_suggestions"
    /\ UNCHANGED <<entry, opts, env, autodetected_version, autodetected_path, args,
                   ipecmd_path, detected_version, passthrough_args, cmd_args, raised,
                   trace, spawned, exit_status>>

Next ==
    \/ CallGetPath
    \/ CallSuggest
    \/ TyperParse
    \/ MainAutodetect
    \/ MainHelp
    \/ MainArgs
    \/ RunCmdGate
    \/ RunCmdSplit
    \/ RunCmdSpawn
    \/ MainPassthroughEnd
    \/ MainRequired
    \/ ProgramPicResolve
    \/ ProgramPicValidateHex
    \/ ProgramPicValidateIpecmd
    \/ ProgramPicDetect
    \/ ProgramPicBuild
    \/ ProgramPicExecute
    \/ MainProgramEnd
    \/ ApiCallerEnd

Spec == Init /\ [][Next]_vars

\* the interpreter runs the statements one after another and subprocess.run
\* returns when the child has exited: a step that can be taken is taken
SpecLive == Init /\ [][Next]_vars /\ WF_vars(Next)

\* ------------------------------------------------------ claims on the builder
StartsWith(t, p) == Len(t) >= Len(p) /\ SubSeq(t, 1, Len(p)) = p

\* the command was built (no lookup error)
Built == pc = "built" /\ raised = NONE

\* positions of the flag tokens (everything after the executable path)
FlagPositions == 2..Len(cmd_args)

PositionsOf(prefix) == {i \in FlagPositions : StartsWith(cmd_args[i], prefix)}

PositionsEqual(tok) == {i \in FlagPositions : cmd_args[i] = tok}

T_E == <<"-","E">>
T_OD == <<"-","O","D">>
T_OL == <<"-","O","L">>

Slot(t) ==
    IF Len(t) < 2 \/ t[1] # "-" THEN 0
    ELSE CASE t[2] = "T" -> 2
           [] t[2] = "P" -> 3
           [] t[2] = "F" -> 4
           [] t[2] = "M" -> 5
           [] t[2] = "Y" -> 6
           [] t[2] = "W" -> 7
           [] t = T_E -> 8
           [] t = T_OD -> 9
           [] t = T_OL -> 10
           [] OTHER -> 0

\* C4: token 0 is the executable path; the tokens after it are flags whose
\* places in the order tool, part, -F, -M, -Y, -W, -E, -OD, -OL strictly increase;
\* a -F token is present iff a firmware path was supplied and is "-F" followed
\* directly by the path; a -W token is present iff a voltage was supplied and is
\* "-W" followed directly by the voltage.
C4_FixedOrder ==
    Built =>
        /\ Len(cmd_args) >= 1
        /\ cmd_args[1] = ipecmd_path
        /\ \A i \in FlagPositions : Slot(cmd_args[i]) \in 2..10
        /\ \A i, j \in FlagPositions :
              i < j => Slot(cmd_args[i]) < Slot(cmd_args[j])
        /\ (PositionsOf(<<"-","F">>) # {}) <=> (args.file # NONE)
        /\ \A i \in PositionsOf(<<"-","F">>) : cmd_args[i] = <<"-","F">> \o args.file
        /\ (PositionsOf(<<"-","W">>) # {}) <=> (args.power # NONE)
        /\ \A i \in PositionsOf(<<"-","W">>) : cmd_args[i] = <<"-","W">> \o args.power

C4_Witness ==
    /\ Built
    /\ args.file # NONE /\ args.power = NONE /\ args.erase /\ ~args.vdd_first
    /\ args.logout /\ args.verify # <<>>
    /\ Len(cmd_args) = 8

\* C5: for a tool identifier of TOOL_CHOICES the built command holds exactly one
\* tool flag, and it is "-" followed by the identifier's entry in TOOL_MAP.
C5_ToolFlag ==
    (Built /\ \E k \in DOMAIN TOOL_CHOICES : TOOL_CHOICES[k] = args.tool) =>
        /\ Cardinality(PositionsOf(<<"-","T">>)) = 1
        /\ \A i \in PositionsOf(<<"-","T">>) :
              /\ cmd_args[i][1] = "-"
              /\ Drop(cmd_args[i], 1) = TOOL_MAP[args.tool]

C5_Witness ==
    /\ Built
    /\ args.tool = PKOB4
    /\ cmd_args[2] = <<"-","T","P","P","K","O","B","4">>
    /\ args.erase /\ args.memory # <<>>

\* C6: exactly one program flag: the bare token "-M" when no region is given,
\* "-M<region>" when one is; a verify flag is present iff a verify region is
\* given, it is "-Y<region>", and it is never the bare "-Y".
C6_ProgramVerify ==
    Built =>
        /\ Cardinality(PositionsOf(<<"-","M">>)) = 1
        /\ \A i \in PositionsOf(<<"-","M">>) :
              /\ args.memory = <<>> => cmd_args[i] = <<"-","M">>
              /\ args.memory # <<>> => (Len(cmd_args[i]) > 2 /\ Drop(cmd_args[i], 2) = args.memory)
        /\ (PositionsOf(<<"-","Y">>) # {}) <=> (args.verify # <<>>)
        /\ Cardinality(PositionsOf(<<"-","Y">>)) <= 1
        /\ \A i \in PositionsOf(<<"-","Y">>) :
              /\ cmd_args[i] # <<"-","Y">>
              /\ Drop(cmd_args[i], 2) = args.verify

C6_Witness ==
    /\ Built
    /\ args.memory = <<>> /\ args.verify = <<>>
    /\ PositionsEqual(<<"-","M">>) # {}
    /\ PositionsOf(<<"-","Y">>) = {}

\* C7: each of -E, -OD, -OL is present iff its input is true; those present
\* stand in the order -E, -OD, -OL, after every value-carrying flag.
C7_BooleanFlags ==
    Built =>
        /\ (PositionsEqual(T_E) # {}) <=> args.erase
        /\ (PositionsEqual(T_OD) # {}) <=> args.vdd_first
        /\ (PositionsEqual(T_OL) # {}) <=> args.logout
        /\ \A i \in PositionsEqual(T_E) : \A j \in PositionsEqual(T_OD) \cup PositionsEqual(T_OL) : i < j
        /\ \A i \in PositionsEqual(T_OD) : \A j \in PositionsEqual(T_OL) : i < j
        /\ \A i \in FlagPositions : \A j \in PositionsEqual(T_E) \cup PositionsEqual(T_OD) \cup PositionsEqual(T_OL) :
              cmd_args[i] \notin {T_E, T_OD, T_OL} => i < j

C7_Witness ==
    /\ Built
    /\ args.erase /\ ~args.vdd_first /\ args.logout
    /\ args.power # NONE
    /\ cmd_args[Len(cmd_args) - 1] = T_E
    /\ cmd_args[Len(cmd_args)] = T_OL

\* --------------------------------------------------- claims on an invocation
HasEvent(ev) == \E i \in DOMAIN trace : trace[i].ev = ev

Done == pc = "done"

\* the passthrough string of a CLI invocation that names one
PassthroughGiven == entry = "cli" /\ Truthy(opts.passthrough)

HasUnsafeChar(str) == \E i \in DOMAIN str : str[i] \in UnsafeChars

FirmwarePath == IF entry = "cli" THEN opts.file ELSE args.file

FirmwareMissing == FirmwarePath # NONE /\ ~Exists(env, FirmwarePath)

PassedExistenceCheck(path) ==
    \E i \in DOMAIN trace :
        trace[i].ev \in {"ipecmd_found", "autodetect_found"} /\ trace[i].what = path

\* C10 as stated: in every mode no subprocess call is attempted on an executable
\* path that did not pass the existence check, and an invocation whose
\* executable is missing makes no subprocess call and ends with a non-zero status.
C10_AsStated ==
    /\ \A i \in DOMAIN spawned : PassedExistenceCheck(spawned[i].argv[1])
    /\ \A i \in DOMAIN spawned :
          (spawned[i].argv[1] = NONE \/ ~Exists(env, spawned[i].argv[1])) =>
              (Done => exit_status # <<0>>)

\* a child that could not be started, or that exited with a code other than 0
FailedSpawn(kind) ==
    \E i \in DOMAIN spawned : spawned[i].kind = kind /\ spawned[i].result # "rc0"

\* C11 as stated: in every mode that spawns the vendor executable (programming,
\* probe, passthrough, --ipecmd-help), when the child fails to start or exits
\* with a non-zero code the invocation ends with a non-zero exit status.
C11_AsStated ==
    (entry = "cli" /\ Done /\ \E kind \in {"program", "probe", "passthrough", "help"} :
                                 FailedSpawn(kind))
        => exit_status # <<0>>

\* program_pic was called / has ended (by a return, sys.exit or an exception)
ProgramPicCalled == HasEvent("program_pic")

ProgramPicEnded == ProgramPicCalled /\ pc \in {"pp_end", "done"}

SpawnedWith(kind, result) ==
    \E i \in DOMAIN spawned : spawned[i].kind = kind /\ spawned[i].result = result

\* the four conditions of a successful programming run
FirmwareAbsentOrExists == ~Truthy(args.file) \/ Exists(env, args.file)

ExecutableExists == ipecmd_path # NONE /\ Exists(env, ipecmd_path)

ProbeSucceeded == args.test_programmer => SpawnedWith("probe", "rc0")

ProgrammingSucceeded == SpawnedWith("program", "rc0")

\* C12: for a tool identifier of TOOL_MAP, program_pic returns normally (exit
\* status 0) iff the firmware file is absent or exists, the executable exists,
\* the probe (when requested) succeeds and the programming child exits with
\* code 0; in every other case it ends through sys.exit(1).
C12_ProgramPicOutcome ==
    (ProgramPicEnded /\ args.tool \in DOMAIN TOOL_MAP) =>
        LET ok == /\ FirmwareAbsentOrExists
                  /\ ExecutableExists
                  /\ ProbeSucceeded
                  /\ ProgrammingSucceeded
        IN  /\ (raised = NONE) <=> ok
            /\ ~ok => raised = <<"SystemExit">>
            /\ Done => exit_status = (IF ok THEN <<0>> ELSE <<1>>)

C12_Witness ==
    /\ ProgramPicEnded
    /\ Done
    /\ Truthy(args.file)
    /\ args.test_programmer
    /\ SpawnedWith("probe", "rc0")
    /\ SpawnedWith("program", "rc1")
    /\ raised = <<"SystemExit">>
    /\ exit_status = <<1>>

\* the value the function logged under ev returned, for each of its calls
Returned(ev) == {trace[j].what : j \in {k \in DOMAIN trace : trace[k].ev = ev}}

\* C13: execute_programming and detect_programmer return true iff the child was
\* spawned and exited with code 0; a non-zero exit code returns false; an
\* exception raised while spawning is caught, returns false and does not
\* propagate to the caller.
C13_ReturnValues ==
    /\ (TRUE \in Returned("detect_programmer")) <=> SpawnedWith("probe", "rc0")
    /\ (TRUE \in Returned("execute_programming")) <=> SpawnedWith("program", "rc0")
    /\ (FALSE \in Returned("detect_programmer")) <=>
          (SpawnedWith("probe", "rc1") \/ SpawnedWith("probe", "raised"))
    /\ (FALSE \in Returned("execute_programming")) <=>
          (SpawnedWith("program", "rc1") \/ SpawnedWith("program", "raised"))
    /\ (SpawnedWith("probe", "raised") \/ SpawnedWith("program", "raised")) =>
          raised \in {NONE, <<"SystemExit">>}

C13_Witness ==
    /\ SpawnedWith("probe", "rc0")
    /\ SpawnedWith("program", "raised")
    /\ Returned("detect_programmer") = {TRUE}
    /\ Returned("execute_programming") = {FALSE}
    /\ raised = <<"SystemExit">>
    /\ Done

\* ------------------------------------------- claims on the path resolution
\* get_ipecmd_path was called on its own and has ended
GotPath == entry = "path" /\ pc = "got_path"

\* every executable path the invocation checked or ran
PathsUsed ==
    {trace[j].what : j \in {k \in DOMAIN trace : trace[k].ev \in {"ipecmd_found", "ipecmd_missing", "built"}}}
    \cup {spawned[i].argv[1] : i \in DOMAIN spawned}

\* C14: whenever an explicit executable path is given it is the path used,
\* unchanged, whatever version is also present: get_ipecmd_path(version,
\* custom_path) returns custom_path, and program_pic validates and spawns
\* args.ipecmd_path without resolving the version.
C14_ExplicitPathWins ==
    /\ (GotPath /\ Truthy(args.custom_path)) =>
          (ipecmd_path = args.custom_path /\ raised = NONE)
    /\ (ProgramPicCalled /\ Truthy(args.ipecmd_path)) =>
          /\ pc # "pp_resolve" => ipecmd_path = args.ipecmd_path
          /\ detected_version = NONE
          /\ PathsUsed \subseteq {args.ipecmd_path}

C14_Witness ==
    /\ GotPath
    /\ args.custom_path = CustomPathWin
    /\ args.version = <<"6.20">>
    /\ ipecmd_path = CustomPathWin

\* a second state of the case: program_pic given a path and a version
C14_WitnessProgramPic ==
    /\ ProgramPicCalled
    /\ args.ipecmd_path = CustomPath
    /\ args.ipecmd_version = <<"6.20">>
    /\ SpawnedWith("program", "rc0")
    /\ Done

\* the text the unit test expects in the ValueError
EitherMustBeProvided == <<"Either version or custom_path must be provided">>

CalledWithNeither == GotPath /\ ~Truthy(args.version) /\ ~Truthy(args.custom_path)

C15_WitnessFound ==
    /\ CalledWithNeither
    /\ env.platform = "win32"
    /\ env.installed = {<<"6.20">>}
    /\ env.installed_x86 = {<<"6.25">>}
    /\ raised = NONE
    /\ ipecmd_path # NONE

\* C16: for every version string and each platform (win32, darwin, other),
\* get_ipecmd_path(version) returns the platform's base directory, the segment
\* "v<version>", mplab_platform/mplab_ipe/ and the executable name, ipecmd.exe on
\* win32 and ipecmd on the others, whether or not anything exists there.
C16_PathComposition ==
    (GotPath /\ Truthy(args.version) /\ ~Truthy(args.custom_path)) =>
        /\ raised = NONE
        /\ ipecmd_path =
              (CASE env.platform = "win32" ->
                      <<"C:", "/", "Program Files", "/", "Microchip", "/", "MPLABX">>
                [] env.platform = "darwin" ->
                      <<"/", "Applications", "/", "microchip", "/", "mplabx">>
                [] OTHER ->
                      <<"/", "opt", "/", "microchip", "/", "mplabx">>)
              \o <<"/", "v">> \o args.version
              \o <<"/", "mplab_platform", "/", "mplab_ipe", "/">>
              \o <<IF env.platform = "win32" THEN "ipecmd.exe" ELSE "ipecmd">>

C16_Witness ==
    /\ GotPath
    /\ args.version = S_9_99
    /\ args.custom_path = NONE
    /\ env.platform = "darwin"
    /\ ~Exists(env, ipecmd_path)
    /\ ipecmd_path[Len(ipecmd_path)] = "ipecmd"
    /\ raised = NONE

\* ---------------------------------------------------- claims on the CLI
\* an exception (a subclass of Exception) left the core function main called
CoreRaised == entry = "cli" /\ raised \notin {NONE, <<"SystemExit">>}

\* C17: an exception raised by program_pic or run_cmd_with_passthrough_option
\* is converted by the CLI into exit status 1: the invocation ends, and never
\* with status 0.
C17_ExceptionsToExit1 ==
    CoreRaised =>
        /\ pc \in {"main_passthrough_end", "pp_end", "done"}
        /\ Done => exit_status = <<1>>

C17_Witness ==
    /\ CoreRaised
    /\ Done
    /\ exit_status = <<1>>
    /\ raised = <<"ValueError">>
    /\ HasEvent("tokenized")
    /\ opts.passthrough = <<"'", "K">>

\* C18: when the part or the tool is missing and neither passthrough nor
\* --ipecmd-help is requested, the CLI exits with a non-zero status without
\* calling program_pic and without spawning any child process.
C18_MissingRequired ==
    (/\ entry = "cli"
     /\ opts.part = NONE \/ opts.tool = NONE
     /\ ~Truthy(opts.passthrough)
     /\ ~opts.ipecmd_help) =>
        /\ ~ProgramPicCalled
        /\ pc \in {"typer_parse", "main_autodetect", "main_help", "main_args",
                   "main_required", "done"}
        /\ spawned = <<>>
        /\ Done => exit_status # <<0>>

C18_Witness ==
    /\ entry = "cli"
    /\ opts.part # NONE /\ opts.tool = NONE
    /\ ~Truthy(opts.passthrough) /\ ~opts.ipecmd_help
    /\ opts.ipecmd_path = CustomPath
    /\ opts.file = NONE
    /\ env.custom_exists
    /\ Done
    /\ exit_status = <<1>>

\* the calls of program_pic so far, each as the args object it was handed
ProgramPicCalls == {j \in DOMAIN trace : trace[j].ev = "program_pic"}

\* a programming invocation with part, tool, file, power, version, memory,
\* verify and erase given, with or without --test-programmer, that typer lets
\* through to main
FullProgrammingInvocation ==
    /\ entry = "cli"
    /\ opts.part # NONE /\ opts.tool # NONE
    /\ opts.file # NONE /\ Exists(env, opts.file)
    /\ opts.power # NONE
    /\ opts.ipecmd_version # NONE
    /\ opts.memory # <<>> /\ opts.verify # <<>> /\ opts.erase
    /\ ~opts.ipecmd_help /\ ~Truthy(opts.passthrough)

\* the plain strings of the tool and the version named on the command line
PlainFields(a) ==
    /\ a.part = opts.part
    /\ a.tool = <<"P", "K", "3">>
    /\ opts.ipecmd_version = <<"V6_20">> => a.ipecmd_version = <<"6.20">>
    /\ opts.ipecmd_version = <<"V6_00">> => a.ipecmd_version = <<"6.00">>
    /\ a.memory = opts.memory
    /\ a.verify = opts.verify
    /\ a.erase = opts.erase
    /\ a.test_programmer = opts.test_programmer

ToolIdentifiers == {TOOL_CHOICES[i] : i \in DOMAIN TOOL_CHOICES}

\* the three tables agree: every identifier of TOOL_CHOICES is a key of
\* TOOL_MAP, each entry starts with "TP", no two identifiers share an entry (or
\* the suffix after "TP"), and the values of ToolChoice are exactly the
\* identifiers of TOOL_CHOICES, each listed once
ToolTablesAgree ==
    /\ ToolIdentifiers \subseteq DOMAIN TOOL_MAP
    /\ \A t \in DOMAIN TOOL_MAP : StartsWith(TOOL_MAP[t], <<"T","P">>)
    /\ \A t, u \in DOMAIN TOOL_MAP :
          Drop(TOOL_MAP[t], 2) = Drop(TOOL_MAP[u], 2) => t = u
    /\ {ToolChoice[m] : m \in DOMAIN ToolChoice} = ToolIdentifiers
    /\ Cardinality(ToolIdentifiers) = Len(TOOL_CHOICES)

\* C20: every identifier in TOOL_CHOICES has an entry in TOOL_MAP, each entry
\* starts with "TP", the mapping from identifier to flag suffix is one-to-one,
\* and the CLI's ToolChoice enumeration holds exactly the identifiers of
\* TOOL_CHOICES, so the identifier an invocation names is one of them and a key
\* of the map.
C20_ToolTables ==
    /\ ToolTablesAgree
    /\ (entry = "cli" /\ opts.tool # NONE) =>
          /\ ToolChoice[opts.tool] \in ToolIdentifiers
          /\ ToolChoice[opts.tool] \in DOMAIN TOOL_MAP

\* an invocation in which the identifier went from the enumeration through the
\* map into a command line
C20_Witness ==
    /\ entry = "cli"
    /\ opts.tool \in DOMAIN ToolChoice
    /\ SpawnedWith("probe", "rc0")
    /\ \E i \in DOMAIN spawned :
          /\ spawned[i].kind = "probe"
          /\ spawned[i].argv[2] = <<"-", "T", "P", "P", "K", "3">>
    /\ Len(cmd_args) > 1
    /\ cmd_args[2] = <<"-", "T", "P", "P", "K", "3">>

\* ------------------------------------------- claims on the version suggestions
\* the version the suggestions were computed for: the argument of the call on
\* its own, version_for_errors in a programming run
SuggestedFor == IF entry = "suggest" THEN args.current_version ELSE VersionForErrors

\* v and w stand next to each other in VERSION_CHOICES
Adjacent(v, w) ==
    \E i \in 1..(Len(VERSION_CHOICES) - 1) :
        \/ VERSION_CHOICES[i] = v /\ VERSION_CHOICES[i + 1] = w
        \/ VERSION_CHOICES[i] = w /\ VERSION_CHOICES[i + 1] = v

\* C21: for a current version of VERSION_CHOICES, _get_version_suggestions
\* returns at most two versions, all of the list, no duplicates, never the
\* current version; when the current version is not the latest the first
\* suggestion is the latest and a second one, if any, is an adjacent neighbour
\* of the current version; for a version not in the list it returns the empty list.
C21_Suggestions ==
    (suggestions.emitted /\ entry \in {"suggest", "cli", "api"}) =>
        LET sug == suggestions.versions
            cur == SuggestedFor
            latest == VERSION_CHOICES[Len(VERSION_CHOICES)]
        IN  IF ~InSeq(VERSION_CHOICES, cur)
            THEN sug = <<>>
            ELSE /\ Len(sug) <= 2
                 /\ \A i \in DOMAIN sug : InSeq(VERSION_CHOICES, sug[i]) /\ sug[i] # cur
                 /\ \A i, j \in DOMAIN sug : sug[i] = sug[j] => i = j
                 /\ cur # latest => (Len(sug) >= 1 /\ sug[1] = latest)
                 /\ (cur # latest /\ Len(sug) = 2) => Adjacent(cur, sug[2])

C21_Witness ==
    /\ entry = "suggest"
    /\ pc = "got_suggestions"
    /\ args.current_version = <<"6.05">>
    /\ suggestions.versions = << <<"6.25">>, <<"6.00">> >>

\* the programming child ran and exited with a non-zero code
ProgrammingFailed == SpawnedWith("program", "rc1")

\* the version string that located the executable: none when a path was given
VersionIsSource ==
    ~Truthy(args.ipecmd_path) /\ (Truthy(args.ipecmd_version) \/ Truthy(detected_version))

\* C22 as stated: after a failed programming run, version suggestions are
\* emitted iff a version string was in effect as the source of the tool
\* location; when an explicit path is the effective source, also when it
\* overrides a supplied version, none is emitted.
C22_AsStated ==
    (ProgramPicEnded /\ ProgrammingFailed) =>
        (suggestions.emitted <=> VersionIsSource)

\* --------------------------------------------- claims on the order of steps
\* the places in the trace where ev was logged
EventsOf(ev) == {j \in DOMAIN trace : trace[j].ev = ev}

SpawnsOf(kind) == {i \in DOMAIN spawned : spawned[i].kind = kind}

ProbeFailed == SpawnedWith("probe", "rc1") \/ SpawnedWith("probe", "raised")

\* C23: when detection is requested the probe is spawned only after both
\* validations have succeeded and before the programming command is built or
\* spawned; if the probe fails the invocation exits with status 1 and the
\* programming command is never spawned; when detection is not requested no
\* probe is spawned.
C23_ProbeOrder ==
    ProgramPicCalled =>
        /\ ~args.test_programmer => SpawnsOf("probe") = {}
        /\ (SpawnsOf("probe") # {}) <=> (EventsOf("detect_programmer") # {})
        /\ \A j \in EventsOf("detect_programmer") :
              /\ \E i \in EventsOf("ipecmd_found") : i < j
              /\ Truthy(args.file) => \E i \in EventsOf("hex_found") : i < j
              /\ EventsOf("hex_missing") \cup EventsOf("ipecmd_missing") = {}
              /\ \A k \in EventsOf("built") \cup EventsOf("execute_programming") : j < k
        /\ (args.test_programmer /\ SpawnsOf("program") # {}) => SpawnedWith("probe", "rc0")
        /\ ProbeFailed =>
              /\ SpawnsOf("program") = {}
              /\ EventsOf("built") = {}
              /\ pc \in {"pp_end", "done"}
              /\ raised = <<"SystemExit">>
              /\ Done => exit_status = <<1>>

C23_Witness ==
    /\ ProgramPicCalled
    /\ entry = "cli"
    /\ args.test_programmer
    /\ Truthy(args.file)
    /\ EventsOf("hex_found") # {}
    /\ SpawnedWith("probe", "rc1")
    /\ SpawnsOf("program") = {}
    /\ Done
    /\ exit_status = <<1>>

\* the invocation, or the call made on its own, has ended
Terminated == pc \in {"done", "got_path", "got_suggestions"}

\* at most one probe and one programming command, and a failed child is the
\* last child of the invocation
NoRetry ==
    /\ Cardinality(SpawnsOf("probe")) <= 1
    /\ Cardinality(SpawnsOf("program")) <= 1
    /\ \A i \in DOMAIN spawned : spawned[i].result # "rc0" => i = Len(spawned)

\* C24: every invocation terminates, having spawned the probe at most once and
\* the programming command at most once; after a failed child nothing is
\* spawned again in that invocation.
C24_TerminatesNoRetry == []NoRetry /\ <>Terminated

C24_Witness ==
    /\ Done
    /\ entry = "cli"
    /\ Len(spawned) = 2
    /\ spawned[1].kind = "probe" /\ spawned[1].result = "rc0"
    /\ spawned[2].kind = "program" /\ spawned[2].result = "rc1"
    /\ suggestions.emitted

\* ------------------------------------------ claims on the spawned commands
\* C25 as stated: when a safe passthrough string is supplied (with a part and a
\* tool), the spawned command is the executable path, the structured flags in
\* their fixed order, then the passthrough tokens.
C25_AsStated ==
    (entry = "cli" /\ opts.part # NONE /\ opts.tool # NONE) =>
        \A i \in SpawnsOf("passthrough") :
            spawned[i].argv = build_ipecmd_command(args, args.ipecmd_path) \o passthrough_args

\* ------------------------------------------- claims on the builder as a function
\* what holds once build_ipecmd_command has ended: a KeyError exactly for a tool
\* identifier outside TOOL_MAP, then no token; otherwise the tokens of the
\* request; nothing spawned or looked at on the way
BuildOutcome ==
    pc = "built" =>
        /\ raised \in {NONE, <<"KeyError">>}
        /\ (raised = <<"KeyError">>) <=> (args.tool \notin DOMAIN TOOL_MAP)
        /\ raised = <<"KeyError">> => cmd_args = <<>>
        /\ raised = NONE =>
              /\ Len(cmd_args) >= 4
              /\ cmd_args[1] = ipecmd_path
              /\ cmd_args = build_ipecmd_command(args, ipecmd_path)
        /\ spawned = <<>> /\ trace = <<>>

C26_WitnessBuilt ==
    /\ pc = "built"
    /\ args.tool = J32
    /\ raised = NONE
    /\ Len(cmd_args) = 10

\* C27: the argument vector of every child is exactly the token sequence built
\* for it, element for element and in order: for programming the output of
\* build_ipecmd_command, for passthrough the executable path followed by the
\* tokenized passthrough (for the probe and the help call their fixed lists);
\* no spawn goes through a shell.
C27_ArgvAsBuilt ==
    \A i \in DOMAIN spawned :
        LET child == spawned[i]
        IN  /\ ~child.shell
            /\ child.kind = "program" =>
                  /\ child.argv = cmd_args
                  /\ child.argv = build_ipecmd_command(args, ipecmd_path)
                  /\ EventsOf("built") # {}
            /\ child.kind = "passthrough" =>
                  /\ child.argv = <<args.ipecmd_path>> \o passthrough_args
                  /\ passthrough_args = shlex_split(args.passthrough).tokens
                  /\ Len(child.argv) = 1 + Len(passthrough_args)
            /\ child.kind = "probe" =>
                  child.argv = <<ipecmd_path, <<"-">> \o TOOL_MAP[args.tool],
                                 <<"-", "P">> \o args.part, <<"-", "O", "K">> >>
            /\ child.kind = "help" =>
                  /\ Len(child.argv) = 2
                  /\ child.argv[2] = <<"-", "?">>

C27_Witness ==
    /\ entry = "cli"
    /\ Len(spawned) = 1
    /\ spawned[1].kind = "passthrough"
    /\ spawned[1].argv = <<CustomPath, <<"-", "K">> >>
    /\ spawned[1].result = "rc0"
    /\ ~spawned[1].shell

\* a second state of the case: a programming command of ten tokens
C27_WitnessProgram ==
    /\ SpawnedWith("program", "rc0")
    /\ Len(cmd_args) = 10
    /\ \E i \in SpawnsOf("program") : spawned[i].argv[10] = T_OL

\* the executable the stated rule selects for a command line: the explicit
\* path, otherwise the path of the supplied version, otherwise the autodetected
\* installation
ExecutableByRule(o, e) ==
    IF Truthy(o.ipecmd_path) THEN o.ipecmd_path
    ELSE IF Truthy(o.ipecmd_version)
         THEN get_ipecmd_path_for(e.platform, VersionChoice[o.ipecmd_version])
         ELSE autodetect_ipecmd(e)[2]

VersionWithoutPath == Truthy(opts.ipecmd_version) /\ ~Truthy(opts.ipecmd_path)

\* --ipecmd-help ended with "Could not determine IPECMD path."
CouldNotDeterminePath ==
    /\ opts.ipecmd_help
    /\ VersionWithoutPath
    /\ exit_status = <<1>>
    /\ spawned = <<>>

\* C28 as stated: in every CLI mode (programming, passthrough, --ipecmd-help)
\* the spawned executable is the explicit path if given, otherwise the path
\* resolved from the supplied version, otherwise the autodetected one; a version
\* without an explicit path never leads to a spawn with an undefined executable
\* or to a "could not determine path" error.
C28_AsStated ==
    entry = "cli" =>
        /\ \A i \in DOMAIN spawned :
              /\ spawned[i].argv[1] # NONE
              /\ spawned[i].argv[1] = ExecutableByRule(opts, env)
        /\ ~CouldNotDeterminePath

\* C29 as stated: the tool flag and the part flag of the detection probe
\* [exe, tool flag, part flag, -OK] are identical to the tool flag and the part
\* flag of the programming command built for the same request, the prefix
\* normalisation of the part identifier included.
C29_AsStated ==
    \A i \in SpawnsOf("probe") :
        LET built == build_ipecmd_command(args, ipecmd_path)
        IN  /\ spawned[i].argv[2] = built[2]
            /\ spawned[i].argv[3] = built[3]

\* a token of the form -F<file>
IsFileToken(token) == Len(token) >= 2 /\ token[1] = "-" /\ token[2] = "F"

FileTokens(argv) == {k \in DOMAIN argv : IsFileToken(argv[k])}

HexChecks == EventsOf("hex_found") \cup EventsOf("hex_missing")

IpecmdChecks == EventsOf("ipecmd_found") \cup EventsOf("ipecmd_missing")

\* C30: in programming mode the firmware existence check is performed if and
\* only if a firmware path was supplied, and it precedes the executable check;
\* whenever a programming command containing a -F token is spawned, that file
\* passed the existence check earlier in the same invocation, and a request
\* without a firmware path is spawned with no -F token.
C30_FirmwareCheck ==
    ProgramPicCalled =>
        /\ HexChecks # {} => Truthy(args.file)
        /\ (IpecmdChecks # {} /\ Truthy(args.file)) => EventsOf("hex_found") # {}
        /\ \A h \in HexChecks : \A x \in IpecmdChecks : h < x
        /\ EventsOf("hex_missing") # {} => (IpecmdChecks = {} /\ spawned = <<>>)
        /\ \A i \in SpawnsOf("program") :
              /\ FileTokens(spawned[i].argv) # {} =>
                    /\ Truthy(args.file)
                    /\ Exists(env, args.file)
                    /\ \A k \in FileTokens(spawned[i].argv) :
                          /\ spawned[i].argv[k] = <<"-", "F">> \o args.file
                          /\ \E h \in EventsOf("hex_found") : trace[h].what = args.file
              /\ ~Truthy(args.file) => FileTokens(spawned[i].argv) = {}
              /\ Truthy(args.file) => FileTokens(spawned[i].argv) # {}

C30_Witness ==
    /\ ProgramPicCalled
    /\ args.file = S_test_hex
    /\ EventsOf("hex_found") # {}
    /\ \E i \in SpawnsOf("program") :
          /\ spawned[i].argv[4] = <<"-", "F">> \o S_test_hex
          /\ spawned[i].result = "rc0"

\* the other side of the case: no firmware path, no check, no -F token
C30_WitnessNoFile ==
    /\ ProgramPicCalled
    /\ args.file = NONE
    /\ HexChecks = {}
    /\ IpecmdChecks # {}
    /\ \E i \in SpawnsOf("program") : FileTokens(spawned[i].argv) = {}

====
